---------------------------- MODULE Spec2Model ----------------------------
(***************************************************************************)
(* SafeDeal escrow bot (src/main(Copy).py): the deal lifecycle and the     *)
(* funds ledger, as the handlers of the aiogram dispatcher implement them. *)
(*                                                                         *)
(* One action per handler.  A handler that awaits the network between a    *)
(* read and a write of the database is two actions (x_start / x_finish)    *)
(* joined by a record in `inflight`: the dispatcher runs every update as   *)
(* its own asyncio task, so other handlers run during the await.  The code *)
(* between two awaits is synchronous (sqlite3 calls) and so one step.      *)
(*                                                                         *)
(* A callback handler runs only for a button the bot has put on a keyboard *)
(* of that user (`keyboards`); keyboards of old messages stay pressable.   *)
(* A command (/start, /mydeals, /balance, /checkpayment, /payout) is typed,*)
(* its arguments free, and its sender need not have sent /start before.    *)
(*                                                                         *)
(* Money is in kopecks (1 rouble = 100), so that 8% is an integer.         *)
(***************************************************************************)
EXTENDS Integers, Sequences, FiniteSets, TLC

\* ---------------------------------------------------------------- bounds
MaxDeals == 1
MaxCredits == 2
MaxWithdrawals == 2
MaxInFlight == 1
MaxConfirms == 2
MaxDialogues == 1
MaxPayouts == 1
MaxSessions == 2
MaxNumbers == 2

\* ------------------------------------------------------ program constants
GUARANTOR_FEE_PERCENT == 8
MIN_WITHDRAWAL == 5000
WALLET_MIN_DIGITS == 11
WALLET_MAX_DIGITS == 16
MIN_DESCRIPTION_LEN == 5

MIN_REVIEW_LEN == 5

Users == {1, 2, 3}
Clients == {1, 2}
ADMIN_IDS == {3}
DealIds == 1..MaxDeals
DealNumbers == 1..MaxNumbers
Amounts == {3000, 50000}
AmountInputs == {0} \cup Amounts
Roles == {"buyer", "seller"}
DescriptionLens == {4, 11}
Ratings == {1, 5}
ReviewLens == {4, 11}
WalletInputs == {[len |-> 10, digits |-> TRUE], [len |-> 11, digits |-> TRUE],
                 [len |-> 12, digits |-> FALSE]}

VARIABLES
    users,        \* table users: user_id -> [exists, balance]
    deals,        \* table deals: id -> row (the domain is the ids persisted)
    withdrawals,  \* table withdrawals: rows in AUTOINCREMENT order
    fsm,          \* MemoryStorage: user -> FSM state and data
    keyboards,    \* callback buttons the bot has sent: <<user, data, deal>>
    inflight,     \* handlers suspended at an await, with what they hold
    paid,         \* the gateway: deals whose label has a successful incoming payment
    credited,     \* history: how often update_user_balance ran for the deal's seller
    payouts,      \* history: successful gateway payouts
    dialogues,    \* history: creation dialogues opened
    reviews       \* table reviews: the rows stored by add_review

vars == <<users, deals, withdrawals, fsm, keyboards, inflight, paid, credited,
          payouts, dialogues, reviews>>

\* ------------------------------------------------------------------ state
NoData == [state |-> "none", creator_role |-> "none", amount |-> 0,
           description |-> FALSE, deadline_days |-> FALSE,
           buyer_id |-> 0, seller_id |-> 0, withdraw_amount |-> 0,
           deal_id |-> 0, reviewed_user_id |-> 0, rating |-> 0]

Init ==
    /\ users = [u \in Users |-> [exists |-> FALSE, balance |-> 0]]
    /\ deals = <<>>
    /\ withdrawals = <<>>
    /\ fsm = [u \in Users |-> NoData]
    /\ keyboards = {}
    /\ inflight = {}
    /\ paid = {}
    /\ credited = [d \in DealNumbers |-> 0]
    /\ payouts = 0
    /\ dialogues = 0
    /\ reviews = {}

\* ------------------------------------------------------- database helpers
get_deal(d) == d \in DOMAIN deals

\* faulty variant of is_admin_user: every user passes
is_admin_user_any(u) == u \in Users

is_admin_user(u) == u \in ADMIN_IDS

\* INSERT OR REPLACE keeping the balance (COALESCE)
save_user(us, u) == [us EXCEPT ![u].exists = TRUE]

\* faulty variant of update_user_balance: the balance is computed by the
\* caller from an earlier read and written back (SET balance = ?)
update_user_balance_stale(us, u, amount) ==
    IF us[u].exists THEN [us EXCEPT ![u].balance = amount] ELSE us

\* UPDATE users SET balance = balance + ? WHERE user_id = ?  (no row: no effect)
update_user_balance(us, u, amount) ==
    IF us[u].exists THEN [us EXCEPT ![u].balance = @ + amount] ELSE us

update_deal_status(ds, d, status) == [ds EXCEPT ![d].status = status]

set_payment_url(ds, d) == [ds EXCEPT ![d].payment_url = TRUE]

\* faulty variant of set_payment_confirmed: the status is written, the flag not
set_payment_confirmed_status_only(ds, d) ==
    [ds EXCEPT ![d].status = "payment_received"]

set_payment_confirmed(ds, d) ==
    [ds EXCEPT ![d].payment_confirmed = TRUE, ![d].status = "payment_received"]

\* faulty variant of set_user_confirmed: the other side's column is written
set_user_confirmed_swapped(ds, d, user_type) ==
    IF user_type = "buyer"
    THEN [ds EXCEPT ![d].seller_confirmed = TRUE]
    ELSE [ds EXCEPT ![d].buyer_confirmed = TRUE]

\* faulty variant of set_user_confirmed: the column is flipped, not set
set_user_confirmed_toggle(ds, d, user_type) ==
    IF user_type = "buyer"
    THEN [ds EXCEPT ![d].buyer_confirmed = ~@]
    ELSE [ds EXCEPT ![d].seller_confirmed = ~@]

set_user_confirmed(ds, d, user_type) ==
    IF user_type = "buyer"
    THEN [ds EXCEPT ![d].buyer_confirmed = TRUE]
    ELSE [ds EXCEPT ![d].seller_confirmed = TRUE]

are_both_confirmed(d) == deals[d].buyer_confirmed /\ deals[d].seller_confirmed

\* faulty variant of guarantor_fee: the percentage is used as a factor
guarantor_fee_factor(amount) == amount * GUARANTOR_FEE_PERCENT

\* deal_data['amount'] * GUARANTOR_FEE_PERCENT, the constant being 0.08
guarantor_fee(amount) == (amount * GUARANTOR_FEE_PERCENT) \div 100

create_deal(ds, d, creator, role, buyer, seller, amount) ==
    ds @@ (d :> [creator_id |-> creator, creator_role |-> role,
                 buyer_id |-> buyer, seller_id |-> seller, amount |-> amount,
                 status |-> "created",
                 buyer_confirmed |-> FALSE, seller_confirmed |-> FALSE,
                 payment_confirmed |-> FALSE, dispute_opened |-> FALSE,
                 payment_url |-> FALSE,
                 guarantor_fee |-> guarantor_fee(amount),
                 total_amount |-> amount + guarantor_fee(amount)])

IsParticipant(u, d) == u \in {deals[d].buyer_id, deals[d].seller_id}

\* a handler parked at an await
Task(op, u, d, amount) == [op |-> op, user |-> u, deal |-> d, amount |-> amount]

\* `inflight` is a set: a continuation equal to one already parked joins it;
\* bound of the exploration: MaxInFlight handlers wait at an await at a time,
\* MaxConfirms when all of them are confirm_deal_creation
CanPark(t) ==
    \/ t \in inflight
    \/ Cardinality(inflight) < MaxInFlight
    \/ /\ t.op = "confirm_deal_creation"
       /\ \A x \in inflight : x.op = "confirm_deal_creation"
       /\ Cardinality(inflight) < MaxConfirms

Button(u, data, d) == <<u, data, d>>

\* ------------------------------------------------- /start and the menus
\* cmd_start without a deal link: the user row and the main menu
cmd_start(u) ==
    /\ users' = save_user(users, u)
    /\ keyboards' = keyboards \cup {Button(u, "create_deal", 0),
                                    Button(u, "my_deals_callback", 0),
                                    Button(u, "my_balance", 0)}
    /\ UNCHANGED <<reviews, deals, withdrawals, fsm, inflight, paid, credited, payouts, dialogues>>

\* /mydeals: show_user_deals offers "create deal" to a user without deals and
\* the details buttons of the deals otherwise; the sender needs no users row
cmd_mydeals(u) ==
    /\ keyboards' = keyboards \cup
          (IF \E d \in DOMAIN deals : IsParticipant(u, d)
           THEN {Button(u, "view_deal_details", d) :
                    d \in {e \in DOMAIN deals : IsParticipant(u, e)}}
           ELSE {Button(u, "create_deal", 0)})
    /\ UNCHANGED <<reviews, users, deals, withdrawals, fsm, inflight, paid, credited, payouts, dialogues>>

\* ---------------------------------------------------- creation dialogue
create_deal_callback(u) ==
    /\ Button(u, "create_deal", 0) \in keyboards
    /\ dialogues' = dialogues + 1
    /\ fsm' = [fsm EXCEPT ![u].state = "DEAL_ROLE"]
    /\ keyboards' = keyboards \cup {Button(u, "role", 0)}
    /\ UNCHANGED <<reviews, users, deals, withdrawals, inflight, paid, credited, payouts>>

\* no state filter: a role button of an old message works at any time
process_role(u, role) ==
    /\ Button(u, "role", 0) \in keyboards
    /\ fsm' = [fsm EXCEPT ![u].creator_role = role, ![u].state = "DEAL_AMOUNT"]
    /\ UNCHANGED <<reviews, users, deals, withdrawals, keyboards, inflight, paid, credited,
                   payouts, dialogues>>

process_amount(u, amount) ==
    /\ fsm[u].state = "DEAL_AMOUNT"
    /\ IF amount <= 0
       THEN UNCHANGED fsm
       ELSE fsm' = [fsm EXCEPT ![u].amount = amount, ![u].state = "DEAL_DESCRIPTION"]
    /\ UNCHANGED <<reviews, users, deals, withdrawals, keyboards, inflight, paid, credited,
                   payouts, dialogues>>

process_description(u, len) ==
    /\ fsm[u].state = "DEAL_DESCRIPTION"
    /\ IF len < MIN_DESCRIPTION_LEN
       THEN UNCHANGED <<fsm, keyboards>>
       ELSE /\ fsm' = [fsm EXCEPT ![u].description = TRUE, ![u].state = "DEAL_DEADLINE"]
            /\ keyboards' = keyboards \cup {Button(u, "deadline", 0)}
    /\ UNCHANGED <<reviews, users, deals, withdrawals, inflight, paid, credited, payouts, dialogues>>

\* no state filter either; state_data['creator_role'] is read after the writes
process_deadline(u) ==
    /\ Button(u, "deadline", 0) \in keyboards
    /\ fsm' = [fsm EXCEPT ![u].deadline_days = TRUE, ![u].state = "DEAL_PARTNER"]
    /\ UNCHANGED <<reviews, users, deals, withdrawals, keyboards, inflight, paid, credited,
                   payouts, dialogues>>

\* faulty variant of process_partner: the creator is accepted as the partner
process_partner_self(u, partner) ==
    /\ fsm[u].state = "DEAL_PARTNER"
    /\ IF ~users[partner].exists
       THEN UNCHANGED <<fsm, users>>
       ELSE /\ users' = save_user(users, partner)
            /\ IF fsm[u].creator_role = "none"
               THEN UNCHANGED fsm
               ELSE fsm' = [fsm EXCEPT
                        ![u].buyer_id = IF fsm[u].creator_role = "buyer" THEN u ELSE partner,
                        ![u].seller_id = IF fsm[u].creator_role = "buyer" THEN partner ELSE u,
                        ![u].state = "DEAL_GROUP_LINK"]
    /\ UNCHANGED <<reviews, deals, withdrawals, keyboards, inflight, paid, credited, payouts, dialogues>>

\* get_user_id_from_message and bot.get_chat find a user who has started the bot
process_partner(u, partner) ==
    /\ fsm[u].state = "DEAL_PARTNER"
    /\ IF ~users[partner].exists
       THEN UNCHANGED <<fsm, users>>
       ELSE /\ users' = save_user(users, partner)
            /\ IF partner = u \/ fsm[u].creator_role = "none"
               THEN UNCHANGED fsm
               ELSE fsm' = [fsm EXCEPT
                        ![u].buyer_id = IF fsm[u].creator_role = "buyer" THEN u ELSE partner,
                        ![u].seller_id = IF fsm[u].creator_role = "buyer" THEN partner ELSE u,
                        ![u].state = "DEAL_GROUP_LINK"]
    /\ UNCHANGED <<reviews, deals, withdrawals, keyboards, inflight, paid, credited, payouts, dialogues>>

process_group_link(u, valid) ==
    /\ fsm[u].state = "DEAL_GROUP_LINK"
    /\ IF valid
       THEN keyboards' = keyboards \cup {Button(u, "confirm_deal_creation", 0)}
       ELSE UNCHANGED keyboards
    /\ UNCHANGED <<reviews, users, deals, withdrawals, fsm, inflight, paid, credited, payouts, dialogues>>

\* state_data[...] raises KeyError on a key the dialogue has not stored
HasDealData(u) ==
    /\ fsm[u].creator_role # "none"
    /\ fsm[u].buyer_id # 0
    /\ fsm[u].seller_id # 0
    /\ fsm[u].amount # 0
    /\ fsm[u].description
    /\ fsm[u].deadline_days

\* faulty variant of generate_deal_number: the number is not checked against
\* the deals table
generate_deal_number_any(d) == d \in Nat

\* generate_deal_number until get_deal finds no row
generate_deal_number(d) == ~get_deal(d)

\* up to the await that sends the invitation
confirm_deal_creation(u, d) ==
    /\ Button(u, "confirm_deal_creation", 0) \in keyboards
    /\ generate_deal_number(d)
    /\ HasDealData(u)
    /\ CanPark(Task("confirm_deal_creation", u, d, 0))
    /\ LET partner == IF fsm[u].creator_role = "buyer"
                      THEN fsm[u].seller_id ELSE fsm[u].buyer_id
       IN /\ deals' = set_user_confirmed(
                 create_deal(deals, d, u, fsm[u].creator_role, fsm[u].buyer_id,
                             fsm[u].seller_id, fsm[u].amount),
                 d, fsm[u].creator_role)
          /\ keyboards' = keyboards \cup {Button(partner, "accept_invite", d),
                                          Button(partner, "reject_invite", d)}
    /\ inflight' = inflight \cup {Task("confirm_deal_creation", u, d, 0)}
    /\ UNCHANGED <<reviews, users, withdrawals, fsm, paid, credited, payouts, dialogues>>

\* after the await: state.clear()
confirm_deal_creation_finish(t) ==
    /\ t \in inflight /\ t.op = "confirm_deal_creation"
    /\ inflight' = inflight \ {t}
    /\ fsm' = [fsm EXCEPT ![t.user] = NoData]
    /\ UNCHANGED <<reviews, users, deals, withdrawals, keyboards, paid, credited, payouts, dialogues>>

\* user_role = 'buyer' if user_id == deal['buyer_id'] else 'seller'
user_role(u, d) == IF u = deals[d].buyer_id THEN "buyer" ELSE "seller"

\* /start deal_<id>: cmd_start, then join_deal_via_link
join_deal_via_link(u, d) ==
    /\ users' = save_user(users, u)
    /\ IF get_deal(d) /\ IsParticipant(u, d) /\ ~are_both_confirmed(d)
       THEN deals' = set_user_confirmed(deals, d,
                        IF u = deals[d].buyer_id THEN "buyer" ELSE "seller")
       ELSE UNCHANGED deals
    /\ UNCHANGED <<reviews, withdrawals, fsm, keyboards, inflight, paid, credited, payouts, dialogues>>

accept_deal_invite(u, d) ==
    /\ Button(u, "accept_invite", d) \in keyboards
    /\ IF get_deal(d) /\ IsParticipant(u, d) /\ ~are_both_confirmed(d)
       THEN deals' = set_user_confirmed(deals, d,
                        IF u = deals[d].buyer_id THEN "buyer" ELSE "seller")
       ELSE UNCHANGED deals
    /\ UNCHANGED <<reviews, users, withdrawals, fsm, keyboards, inflight, paid, credited,
                   payouts, dialogues>>

\* up to the await that notifies the creator
reject_deal_invite(u, d) ==
    /\ Button(u, "reject_invite", d) \in keyboards
    /\ get_deal(d) /\ IsParticipant(u, d)
    /\ CanPark(Task("reject_deal_invite", u, d, 0))
    /\ inflight' = inflight \cup {Task("reject_deal_invite", u, d, 0)}
    /\ UNCHANGED <<reviews, users, deals, withdrawals, fsm, keyboards, paid, credited,
                   payouts, dialogues>>

reject_deal_invite_finish(t) ==
    /\ t \in inflight /\ t.op = "reject_deal_invite"
    /\ inflight' = inflight \ {t}
    /\ deals' = update_deal_status(deals, t.deal, "rejected")
    /\ UNCHANGED <<reviews, users, withdrawals, fsm, keyboards, paid, credited, payouts, dialogues>>

\* ------------------------------------------------------- deal lifecycle
\* my_deals_callback lists the deals of the user, each with its details button
HasDealList(u, d) ==
    /\ \/ Button(u, "my_deals_callback", 0) \in keyboards
       \/ Button(u, "view_deal_details", d) \in keyboards
    /\ get_deal(d) /\ IsParticipant(u, d)

\* faulty variant of view_deal_details: the review button is offered with the
\* details of a deal in any status
view_deal_details_review(u, d) ==
    /\ HasDealList(u, d)
    /\ keyboards' = keyboards \cup {Button(u, "review_seller", d), Button(u, "dispute", d)}
    /\ UNCHANGED <<reviews, users, deals, withdrawals, fsm, inflight, paid, credited,
                   payouts, dialogues>>

\* view_deal_details: the keyboard depends on the status at the time of viewing
view_deal_details(u, d) ==
    /\ HasDealList(u, d)
    /\ keyboards' = keyboards
          \cup (IF deals[d].status = "created" /\ are_both_confirmed(d)
                THEN (IF u = deals[d].buyer_id THEN {Button(u, "payment", d)} ELSE {})
                ELSE IF deals[d].status = "payment_received"
                THEN (IF u = deals[d].seller_id THEN {Button(u, "work_done", d)}
                      ELSE IF u = deals[d].buyer_id THEN {Button(u, "confirm_receipt", d)}
                      ELSE {})
                ELSE {})
          \cup {Button(u, "dispute", d)}
    /\ UNCHANGED <<reviews, users, deals, withdrawals, fsm, inflight, paid, credited,
                   payouts, dialogues>>

\* faulty variant of initiate_payment: the status of the deal is not checked
initiate_payment_any_status(u, d) ==
    /\ Button(u, "payment", d) \in keyboards
    /\ IF /\ get_deal(d)
          /\ u = deals[d].buyer_id
          /\ are_both_confirmed(d)
       THEN /\ deals' = set_payment_url(deals, d)
            /\ keyboards' = keyboards \cup {Button(u, "confirm_payment", d),
                                            Button(u, "dispute", d)}
       ELSE UNCHANGED <<deals, keyboards>>
    /\ UNCHANGED <<reviews, users, withdrawals, fsm, inflight, paid, credited, payouts, dialogues>>

\* yoo_money.create_payment builds the URL locally (no suspension)
initiate_payment(u, d) ==
    /\ Button(u, "payment", d) \in keyboards
    /\ IF /\ get_deal(d)
          /\ u = deals[d].buyer_id
          /\ deals[d].status = "created"
          /\ are_both_confirmed(d)
       THEN /\ deals' = set_payment_url(deals, d)
            /\ keyboards' = keyboards \cup {Button(u, "confirm_payment", d),
                                            Button(u, "dispute", d)}
       ELSE UNCHANGED <<deals, keyboards>>
    /\ UNCHANGED <<reviews, users, withdrawals, fsm, inflight, paid, credited, payouts, dialogues>>

\* the gateway: a payment labelled deal_<id> arrives on the account
Pay(d) ==
    /\ get_deal(d)
    /\ d \notin paid
    /\ paid' = paid \cup {d}
    /\ UNCHANGED <<reviews, users, deals, withdrawals, fsm, keyboards, inflight, credited,
                   payouts, dialogues>>

\* faulty variant of check_payment: a payment in the history is never recognised
check_payment_blind(d, answer) == answer = FALSE

\* YooMoneyAPI.check_payment: True only for a payment in the history; False on
\* a missing token, an API error or an exception as well
check_payment(d, answer) == answer \in BOOLEAN /\ (answer => d \in paid)

\* up to the await of check_payment
confirm_payment(u, d) ==
    /\ Button(u, "confirm_payment", d) \in keyboards
    /\ get_deal(d)
    /\ CanPark(Task("confirm_payment", u, d, 0))
    /\ inflight' = inflight \cup {Task("confirm_payment", u, d, 0)}
    /\ UNCHANGED <<reviews, users, deals, withdrawals, fsm, keyboards, paid, credited,
                   payouts, dialogues>>

\* faulty variant of confirm_payment_finish: the answer of the gateway is ignored
confirm_payment_finish_unchecked(t, answer) ==
    /\ t \in inflight /\ t.op = "confirm_payment"
    /\ check_payment(t.deal, answer)
    /\ inflight' = inflight \ {t}
    /\ deals' = set_payment_confirmed(deals, t.deal)
    /\ keyboards' = keyboards \cup {Button(t.user, "dispute", t.deal)}
    /\ UNCHANGED <<reviews, users, withdrawals, fsm, paid, credited, payouts, dialogues>>

\* after the await: check_payment has answered
confirm_payment_finish(t, answer) ==
    /\ t \in inflight /\ t.op = "confirm_payment"
    /\ check_payment(t.deal, answer)
    /\ inflight' = inflight \ {t}
    /\ IF answer
       THEN /\ deals' = set_payment_confirmed(deals, t.deal)
            /\ keyboards' = keyboards \cup {Button(t.user, "dispute", t.deal)}
       ELSE UNCHANGED <<deals, keyboards>>
    /\ UNCHANGED <<reviews, users, withdrawals, fsm, paid, credited, payouts, dialogues>>

\* /checkpayment <id>, up to the await of check_payment; anyone can type the
\* command, a sender outside ADMIN_IDS only gets the refusal
cmd_checkpayment(u, d) ==
    /\ IF is_admin_user(u)
       THEN /\ get_deal(d)
            /\ CanPark(Task("cmd_checkpayment", u, d, 0))
            /\ inflight' = inflight \cup {Task("cmd_checkpayment", u, d, 0)}
       ELSE UNCHANGED inflight
    /\ UNCHANGED <<reviews, users, deals, withdrawals, fsm, keyboards, paid, credited,
                   payouts, dialogues>>

cmd_checkpayment_finish(t, answer) ==
    /\ t \in inflight /\ t.op = "cmd_checkpayment"
    /\ check_payment(t.deal, answer)
    /\ inflight' = inflight \ {t}
    /\ IF answer
       THEN deals' = set_payment_confirmed(deals, t.deal)
       ELSE UNCHANGED deals
    /\ UNCHANGED <<reviews, users, withdrawals, fsm, keyboards, paid, credited, payouts, dialogues>>

\* work_done only notifies the buyer and shows the seller the dispute button;
\* nothing is stored
work_done(u, d) ==
    /\ Button(u, "work_done", d) \in keyboards
    /\ get_deal(d)
    /\ u = deals[d].seller_id
    /\ deals[d].payment_confirmed
    /\ keyboards' = keyboards \cup {Button(u, "dispute", d)}
    /\ UNCHANGED <<reviews, users, deals, withdrawals, fsm, inflight, paid, credited,
                   payouts, dialogues>>

\* faulty variant of CreditSeller: the seller gets the total payable, fee included
CreditSeller_total(d) ==
    /\ credited[d] < MaxCredits
    /\ users' = update_user_balance(users, deals[d].seller_id, deals[d].total_amount)
    /\ deals' = update_deal_status(deals, d, "completed")
    /\ credited' = [credited EXCEPT ![d] = @ + 1]

\* the credit of the seller, as confirm_receipt and admin_pay both do it
CreditSeller(d) ==
    /\ credited[d] < MaxCredits
    /\ users' = update_user_balance(users, deals[d].seller_id, deals[d].amount)
    /\ deals' = update_deal_status(deals, d, "completed")
    /\ credited' = [credited EXCEPT ![d] = @ + 1]

confirm_receipt(u, d) ==
    /\ Button(u, "confirm_receipt", d) \in keyboards
    /\ get_deal(d)
    /\ u = deals[d].buyer_id
    /\ CreditSeller(d)
    /\ keyboards' = keyboards \cup {Button(u, "review_seller", d)}
    /\ UNCHANGED <<reviews, withdrawals, fsm, inflight, paid, payouts, dialogues>>

open_dispute(u, d) ==
    /\ Button(u, "dispute", d) \in keyboards
    /\ get_deal(d)
    /\ IsParticipant(u, d)
    /\ deals' = [deals EXCEPT ![d].dispute_opened = TRUE, ![d].status = "dispute"]
    /\ keyboards' = keyboards \cup UNION {{Button(a, "admin_refund", d),
                                            Button(a, "admin_pay", d)} : a \in ADMIN_IDS}
    /\ UNCHANGED <<reviews, users, withdrawals, fsm, inflight, paid, credited, payouts, dialogues>>

\* faulty variant of admin_refund: the resolution clears the dispute flag
admin_refund_clears_flag(u, d) ==
    /\ Button(u, "admin_refund", d) \in keyboards
    /\ is_admin_user(u)
    /\ get_deal(d)
    /\ deals' = [deals EXCEPT ![d].status = "cancelled", ![d].dispute_opened = FALSE]
    /\ UNCHANGED <<reviews, users, withdrawals, fsm, keyboards, inflight, paid, credited,
                   payouts, dialogues>>

\* faulty variant of admin_refund: the principal is put on the buyer's balance
admin_refund_credit(u, d) ==
    /\ Button(u, "admin_refund", d) \in keyboards
    /\ is_admin_user(u)
    /\ get_deal(d)
    /\ deals' = update_deal_status(deals, d, "cancelled")
    /\ users' = update_user_balance(users, deals[d].buyer_id, deals[d].amount)
    /\ UNCHANGED <<reviews, withdrawals, fsm, keyboards, inflight, paid, credited,
                   payouts, dialogues>>

admin_refund(u, d) ==
    /\ Button(u, "admin_refund", d) \in keyboards
    /\ is_admin_user(u)
    /\ get_deal(d)
    /\ deals' = update_deal_status(deals, d, "cancelled")
    /\ UNCHANGED <<reviews, users, withdrawals, fsm, keyboards, inflight, paid, credited,
                   payouts, dialogues>>

admin_pay(u, d) ==
    /\ Button(u, "admin_pay", d) \in keyboards
    /\ is_admin_user(u)
    /\ get_deal(d)
    /\ CreditSeller(d)
    /\ UNCHANGED <<reviews, withdrawals, fsm, keyboards, inflight, paid, payouts, dialogues>>


\* --------------------------------------------------------------- ledger
\* get_user_balance inserts a row with balance 0 for an unknown user
get_user_balance(us, u) == IF us[u].exists THEN us[u].balance ELSE 0

lazy_user(us, u) == IF us[u].exists THEN us ELSE [us EXCEPT ![u] = [exists |-> TRUE, balance |-> 0]]

BalanceKeyboard(u) ==
    IF get_user_balance(users, u) >= MIN_WITHDRAWAL
    THEN {Button(u, "withdraw_request", 0)} ELSE {}

\* /balance
cmd_balance(u) ==
    /\ users' = lazy_user(users, u)
    /\ keyboards' = keyboards \cup BalanceKeyboard(u)
                              \cup {Button(u, "my_deals_callback", 0)}
    /\ UNCHANGED <<reviews, deals, withdrawals, fsm, inflight, paid, credited, payouts, dialogues>>

my_balance_callback(u) ==
    /\ Button(u, "my_balance", 0) \in keyboards
    /\ users' = lazy_user(users, u)
    /\ keyboards' = keyboards \cup BalanceKeyboard(u)
                              \cup {Button(u, "my_deals_callback", 0)}
    /\ UNCHANGED <<reviews, deals, withdrawals, fsm, inflight, paid, credited, payouts, dialogues>>

\* up to the await that edits the message: the balance is read and checked here
withdraw_request(u) ==
    /\ Button(u, "withdraw_request", 0) \in keyboards
    /\ users' = lazy_user(users, u)
    /\ IF get_user_balance(users, u) < MIN_WITHDRAWAL
       THEN UNCHANGED inflight
       ELSE /\ CanPark(Task("withdraw_request", u, 0, get_user_balance(users, u)))
            /\ inflight' = inflight \cup
                   {Task("withdraw_request", u, 0, get_user_balance(users, u))}
    /\ UNCHANGED <<reviews, deals, withdrawals, fsm, keyboards, paid, credited, payouts, dialogues>>

\* after the await: the balance read before it is stored as withdraw_amount
withdraw_request_finish(t) ==
    /\ t \in inflight /\ t.op = "withdraw_request"
    /\ inflight' = inflight \ {t}
    /\ fsm' = [fsm EXCEPT ![t.user].state = "WITHDRAWAL_WALLET",
                          ![t.user].withdraw_amount = t.amount]
    /\ UNCHANGED <<reviews, users, deals, withdrawals, keyboards, paid, credited, payouts, dialogues>>

\* re.match(r'^\d{11,16}$', wallet)
wallet_ok(w) == w.digits /\ w.len >= WALLET_MIN_DIGITS /\ w.len <= WALLET_MAX_DIGITS

create_withdrawal_request(ws, u, amount, w) ==
    Append(ws, [user_id |-> u, amount |-> amount, status |-> "pending", wallet |-> w])

\* faulty variant of process_withdrawal_wallet: the amount is added, not debited
process_withdrawal_wallet_sign(u, w) ==
    /\ fsm[u].state = "WITHDRAWAL_WALLET"
    /\ IF fsm[u].withdraw_amount = 0
       THEN /\ fsm' = [fsm EXCEPT ![u] = NoData]
            /\ UNCHANGED <<users, withdrawals, inflight>>
       ELSE IF ~wallet_ok(w)
       THEN UNCHANGED <<users, withdrawals, inflight, fsm>>
       ELSE /\ Len(withdrawals) < MaxWithdrawals
            /\ CanPark(Task("process_withdrawal_wallet", u, 0, 0))
            /\ withdrawals' = create_withdrawal_request(withdrawals, u,
                                   fsm[u].withdraw_amount, w)
            /\ users' = update_user_balance(users, u, fsm[u].withdraw_amount)
            /\ inflight' = inflight \cup {Task("process_withdrawal_wallet", u, 0, 0)}
            /\ UNCHANGED fsm
    /\ UNCHANGED <<reviews, deals, keyboards, paid, credited, payouts, dialogues>>

\* the body of process_withdrawal_wallet, up to the awaits that notify the
\* administrators; process_review_text calls it too
withdrawal_wallet(u, w) ==
    /\ IF fsm[u].withdraw_amount = 0
       THEN /\ fsm' = [fsm EXCEPT ![u] = NoData]
            /\ UNCHANGED <<users, withdrawals, inflight>>
       ELSE IF ~wallet_ok(w)
       THEN UNCHANGED <<users, withdrawals, inflight, fsm>>
       ELSE /\ Len(withdrawals) < MaxWithdrawals
            /\ CanPark(Task("process_withdrawal_wallet", u, 0, 0))
            /\ withdrawals' = create_withdrawal_request(withdrawals, u,
                                   fsm[u].withdraw_amount, w)
            /\ users' = update_user_balance(users, u, 0 - fsm[u].withdraw_amount)
            /\ inflight' = inflight \cup {Task("process_withdrawal_wallet", u, 0, 0)}
            /\ UNCHANGED fsm
    /\ UNCHANGED <<reviews, deals, keyboards, paid, credited, payouts, dialogues>>

\* the handler of a message in state WITHDRAWAL_WALLET
process_withdrawal_wallet(u, w) ==
    /\ fsm[u].state = "WITHDRAWAL_WALLET"
    /\ withdrawal_wallet(u, w)

\* after the awaits: state.clear()
process_withdrawal_wallet_finish(t) ==
    /\ t \in inflight /\ t.op = "process_withdrawal_wallet"
    /\ inflight' = inflight \ {t}
    /\ fsm' = [fsm EXCEPT ![t.user] = NoData]
    /\ UNCHANGED <<reviews, users, deals, withdrawals, keyboards, paid, credited, payouts, dialogues>>

\* /payout user_id amount wallet, up to the await of make_payout; a sender
\* outside ADMIN_IDS only gets the refusal
cmd_payout(u, target, amount) ==
    /\ IF is_admin_user(u)
       THEN /\ CanPark(Task("cmd_payout", target, 0, amount))
            /\ inflight' = inflight \cup {Task("cmd_payout", target, 0, amount)}
       ELSE UNCHANGED inflight
    /\ UNCHANGED <<reviews, users, deals, withdrawals, fsm, keyboards, paid, credited,
                   payouts, dialogues>>

\* UPDATE withdrawals SET status = 'completed' WHERE user_id, amount, 'pending'
complete_withdrawals(ws, target, amount) ==
    [i \in DOMAIN ws |->
        IF ws[i].user_id = target /\ ws[i].amount = amount /\ ws[i].status = "pending"
        THEN [ws[i] EXCEPT !.status = "completed"] ELSE ws[i]]

\* faulty variant of cmd_payout_finish: the request is marked without looking
\* at the answer of the gateway
cmd_payout_finish_unchecked(t, success) ==
    /\ t \in inflight /\ t.op = "cmd_payout"
    /\ inflight' = inflight \ {t}
    /\ withdrawals' = complete_withdrawals(withdrawals, t.user, t.amount)
    /\ IF success
       THEN payouts < MaxPayouts /\ payouts' = payouts + 1
       ELSE UNCHANGED payouts
    /\ UNCHANGED <<reviews, users, deals, fsm, keyboards, paid, credited, dialogues>>

\* make_payout answers False on any API error
cmd_payout_finish(t, success) ==
    /\ t \in inflight /\ t.op = "cmd_payout"
    /\ inflight' = inflight \ {t}
    /\ IF success
       THEN /\ payouts < MaxPayouts
            /\ payouts' = payouts + 1
            /\ withdrawals' = complete_withdrawals(withdrawals, t.user, t.amount)
       ELSE UNCHANGED <<payouts, withdrawals>>
    /\ UNCHANGED <<reviews, users, deals, fsm, keyboards, paid, credited, dialogues>>

PayoutAmounts == Amounts \cup {withdrawals[i].amount : i \in DOMAIN withdrawals}

\* --------------------------------------------------------------- reviews
\* review_seller: no check of the caller or of the status
review_seller(u, d) ==
    /\ Button(u, "review_seller", d) \in keyboards
    /\ get_deal(d)
    /\ fsm' = [fsm EXCEPT ![u].state = "REVIEW_TEXT", ![u].deal_id = d,
                          ![u].reviewed_user_id = deals[d].seller_id]
    /\ keyboards' = keyboards \cup {Button(u, "rating", d)}
    /\ UNCHANGED <<users, deals, withdrawals, inflight, paid, credited, payouts,
                   dialogues, reviews>>

\* no state filter: state.update_data(rating=rating)
process_rating(u, d, rating) ==
    /\ Button(u, "rating", d) \in keyboards
    /\ fsm' = [fsm EXCEPT ![u].rating = rating]
    /\ UNCHANGED <<users, deals, withdrawals, keyboards, inflight, paid, credited,
                   payouts, dialogues, reviews>>

add_review(rs, d, reviewer, reviewed, rating) ==
    rs \cup {[deal_id |-> d, reviewer_id |-> reviewer,
              reviewed_user_id |-> reviewed, rating |-> rating]}

\* a message in state REVIEW_TEXT.  A second row that the same data would give
\* during the await before state.clear() is the same element of `reviews`.
process_review_text(u, len, w) ==
    /\ fsm[u].state = "REVIEW_TEXT"
    /\ IF fsm[u].withdraw_amount # 0
       THEN withdrawal_wallet(u, w)
       ELSE /\ IF len < MIN_REVIEW_LEN
               THEN UNCHANGED <<fsm, reviews, keyboards>>
               ELSE IF fsm[u].deal_id = 0 \/ fsm[u].reviewed_user_id = 0 \/ fsm[u].rating = 0
               THEN /\ fsm' = [fsm EXCEPT ![u] = NoData]
                    /\ UNCHANGED <<reviews, keyboards>>
               ELSE /\ reviews' = add_review(reviews, fsm[u].deal_id, u,
                                             fsm[u].reviewed_user_id, fsm[u].rating)
                    /\ keyboards' = keyboards \cup {Button(u, "my_deals_callback", 0)}
                    /\ fsm' = [fsm EXCEPT ![u] = NoData]
            /\ UNCHANGED <<users, deals, withdrawals, inflight, paid, credited,
                           payouts, dialogues>>

Ledger ==
    \/ \E u \in Users : cmd_balance(u)
    \/ \E u \in Users : my_balance_callback(u)
    \/ \E u \in Users : withdraw_request(u)
    \/ \E t \in inflight : withdraw_request_finish(t)
    \/ \E u \in Users, w \in WalletInputs : process_withdrawal_wallet(u, w)
    \/ \E t \in inflight : process_withdrawal_wallet_finish(t)
    \/ \E u \in Users, target \in Users, amount \in PayoutAmounts :
          cmd_payout(u, target, amount)
    \/ \E t \in inflight, success \in BOOLEAN : cmd_payout_finish(t, success)

\* the handlers that take a deal from its creation to the credit of the seller
PaidPath ==
    \/ \E u \in Users, d \in DealIds : accept_deal_invite(u, d)
    \/ \E u \in Users, d \in DealIds : view_deal_details(u, d)
    \/ \E u \in Users, d \in DealIds : initiate_payment(u, d)
    \/ \E d \in DealIds : Pay(d)
    \/ \E u \in Users, d \in DealIds : confirm_payment(u, d)
    \/ \E t \in inflight, answer \in BOOLEAN : confirm_payment_finish(t, answer)
    \/ \E u \in Users, d \in DealIds : confirm_receipt(u, d)

\* ------------------------------------------------------- specifications
\* the answers of the creation dialogue
DialogueSteps ==
    \/ \E u \in Clients : cmd_start(u)
    \/ \E u \in Clients, role \in Roles : process_role(u, role)
    \/ \E u \in Clients, amount \in AmountInputs : process_amount(u, amount)
    \/ \E u \in Clients, len \in DescriptionLens : process_description(u, len)
    \/ \E u \in Clients : process_deadline(u)
    \/ \E u \in Clients, partner \in Clients : process_partner(u, partner)
    \/ \E u \in Clients, valid \in BOOLEAN : process_group_link(u, valid)

Dialogue ==
    \/ \E u \in Clients : dialogues < MaxDialogues /\ create_deal_callback(u)
    \/ DialogueSteps
    \/ \E u \in Clients, d \in DealIds : confirm_deal_creation(u, d)

DialogueEnd == \E t \in inflight : confirm_deal_creation_finish(t)

Lifecycle ==
    \/ \E u \in Users, d \in DealIds : join_deal_via_link(u, d)
    \/ \E u \in Users, d \in DealIds : accept_deal_invite(u, d)
    \/ \E u \in Users, d \in DealIds : reject_deal_invite(u, d)
    \/ \E t \in inflight : reject_deal_invite_finish(t)
    \/ \E u \in Users, d \in DealIds : view_deal_details(u, d)
    \/ \E u \in Users, d \in DealIds : initiate_payment(u, d)
    \/ \E d \in DealIds : Pay(d)
    \/ \E u \in Users, d \in DealIds : confirm_payment(u, d)
    \/ \E t \in inflight, answer \in BOOLEAN : confirm_payment_finish(t, answer)
    \/ \E u \in Users, d \in DealIds : cmd_checkpayment(u, d)
    \/ \E t \in inflight, answer \in BOOLEAN : cmd_checkpayment_finish(t, answer)
    \/ \E u \in Users, d \in DealIds : work_done(u, d)
    \/ \E u \in Users, d \in DealIds : confirm_receipt(u, d)
    \/ \E u \in Users, d \in DealIds : open_dispute(u, d)
    \/ \E u \in Users, d \in DealIds : admin_refund(u, d)
    \/ \E u \in Users, d \in DealIds : admin_pay(u, d)

\* bound of the exploration: the creation dialogue runs while a deal id is free
DialogueOpen == Cardinality(DOMAIN deals) < MaxDeals

\* the deal list typed as a command, by a user who may never have sent /start
MyDeals == \E u \in Clients : cmd_mydeals(u)

Next == Dialogue \/ DialogueEnd \/ Lifecycle \/ Ledger \/ MyDeals

Spec == Init /\ [][Next]_vars

NextDeal == (DialogueOpen /\ (Dialogue \/ MyDeals)) \/ DialogueEnd \/ Lifecycle

SpecDeal == Init /\ [][NextDeal]_vars

NextLedger == (DialogueOpen /\ Dialogue) \/ DialogueEnd \/ PaidPath \/ Ledger

SpecLedger == Init /\ [][NextLedger]_vars


\* the dispute handlers: with admin_pay the second way to a credit
Resolve ==
    \/ \E u \in Users, d \in DealIds : open_dispute(u, d)
    \/ \E u \in Users, d \in DealIds : admin_refund(u, d)
    \/ \E u \in Users, d \in DealIds : admin_pay(u, d)

\* the withdrawal dialogue: the handlers of the ledger that read or write users
Withdraw ==
    \/ \E u \in Users : cmd_balance(u)
    \/ \E u \in Users : my_balance_callback(u)
    \/ \E u \in Users : withdraw_request(u)
    \/ \E t \in inflight : withdraw_request_finish(t)
    \/ \E u \in Users, w \in WalletInputs : process_withdrawal_wallet(u, w)
    \/ \E t \in inflight : process_withdrawal_wallet_finish(t)

\* every handler that writes a balance, with the handlers that lead to it
NextFunds == (DialogueOpen /\ Dialogue) \/ DialogueEnd \/ PaidPath \/ Resolve \/ Withdraw

SpecFunds == Init /\ [][NextFunds]_vars

\* the operations reserved to ADMIN_IDS, with what gives them something to act
\* on: a deal, its payment at the gateway, a dispute, a withdrawal request
AdminOnly ==
    \/ \E u \in Users, d \in DealIds : view_deal_details(u, d)
    \/ \E d \in DealIds : Pay(d)
    \/ \E u \in Users, d \in DealIds : cmd_checkpayment(u, d)
    \/ \E t \in inflight, answer \in BOOLEAN : cmd_checkpayment_finish(t, answer)

\* a withdrawal request made from the menu
Request ==
    \/ \E u \in Users : my_balance_callback(u)
    \/ \E u \in Users : withdraw_request(u)
    \/ \E t \in inflight : withdraw_request_finish(t)
    \/ \E u \in Users, w \in WalletInputs : process_withdrawal_wallet(u, w)
    \/ \E t \in inflight : process_withdrawal_wallet_finish(t)

Payout ==
    \/ \E u \in Users, target \in Users, amount \in PayoutAmounts :
          cmd_payout(u, target, amount)
    \/ \E t \in inflight, success \in BOOLEAN : cmd_payout_finish(t, success)

NextAdmin ==
    \/ DialogueOpen /\ Dialogue
    \/ DialogueEnd
    \/ AdminOnly
    \/ Resolve
    \/ Request
    \/ Payout

SpecAdmin == Init /\ [][NextAdmin]_vars

\* deal creation alone: up to MaxSessions dialogues, the deal number drawn
\* from DealNumbers

\* the dialogues with accepted answers only (one amount, a valid description
\* and link): the deal number does not depend on them
Sessions ==
    \/ \E u \in Clients : cmd_start(u)
    \/ \E u \in Clients : dialogues < MaxSessions /\ create_deal_callback(u)
    \/ \E u \in Clients, role \in Roles : process_role(u, role)
    \/ \E u \in Clients : process_amount(u, 3000)
    \/ \E u \in Clients : process_description(u, 11)
    \/ \E u \in Clients : process_deadline(u)
    \/ \E u \in Clients, partner \in Clients : process_partner(u, partner)
    \/ \E u \in Clients : process_group_link(u, TRUE)
    \/ \E u \in Clients, d \in DealNumbers : confirm_deal_creation(u, d)

\* bound of the exploration: the dialogues run while a deal number is free
NumberFree == Cardinality(DOMAIN deals) < MaxNumbers

NextCreate == (NumberFree /\ Sessions) \/ DialogueEnd

SpecCreate == Init /\ [][NextCreate]_vars

\* a deal that stays in status created until its payment is confirmed: the
\* handlers up to confirm_payment, without rejection, dispute or completion
Retry ==
    \/ \E u \in Users, d \in DealIds : accept_deal_invite(u, d)
    \/ \E u \in Users, d \in DealIds : view_deal_details(u, d)
    \/ \E u \in Users, d \in DealIds : initiate_payment(u, d)
    \/ \E d \in DealIds : Pay(d)
    \/ \E u \in Users, d \in DealIds : confirm_payment(u, d)
    \/ \E t \in inflight, answer \in BOOLEAN : confirm_payment_finish(t, answer)

NextRetry == (DialogueOpen /\ Dialogue) \/ DialogueEnd \/ Retry

\* the event loop resumes a handler whose await is over; the buyer presses
\* "check again" as long as the bot offers it; a gateway that is asked again
\* and again about a payment it holds reports it at some point
SpecRetry ==
    /\ Init /\ [][NextRetry]_vars
    /\ WF_vars(DialogueEnd)
    /\ WF_vars(\E u \in Users, d \in DealIds : confirm_payment(u, d))
    /\ SF_vars(\E t \in inflight : confirm_payment_finish(t, TRUE))

\* one buyer orders twice from the same seller: the dialogues of user 1 as
\* buyer with user 2 as partner, the principal drawn from Amounts
Orders ==
    \/ \E u \in Clients : cmd_start(u)
    \/ dialogues < MaxSessions /\ create_deal_callback(1)
    \/ process_role(1, "buyer")
    \/ \E amount \in Amounts : process_amount(1, amount)
    \/ process_description(1, 11)
    \/ process_deadline(1)
    \/ process_partner(1, 2)
    \/ process_group_link(1, TRUE)
    \/ \E d \in DealNumbers : confirm_deal_creation(1, d)

\* the two ways to a credit of the seller, for every deal number: payment and
\* confirm_receipt by the buyer, dispute by the buyer and admin_pay
Credits ==
    \/ \E d \in DealNumbers : view_deal_details(1, d)
    \/ \E d \in DealNumbers : Pay(d)
    \/ \E u \in ADMIN_IDS, d \in DealNumbers : cmd_checkpayment(u, d)
    \/ \E t \in inflight, answer \in BOOLEAN : cmd_checkpayment_finish(t, answer)
    \/ \E d \in DealNumbers : confirm_receipt(1, d)
    \/ \E d \in DealNumbers : open_dispute(1, d)
    \/ \E u \in ADMIN_IDS, d \in DealNumbers : admin_pay(u, d)

NextCredit == (NumberFree /\ Orders) \/ DialogueEnd \/ Credits

SpecCredit == Init /\ [][NextCredit]_vars

\* the balance seen from every entry point: the creation dialogue entered from
\* the menu or from /mydeals, the paid path to the credit, the balance and
\* withdrawal handlers
NextBalance == (DialogueOpen /\ (Dialogue \/ MyDeals)) \/ DialogueEnd \/ PaidPath \/ Withdraw

SpecBalance == Init /\ [][NextBalance]_vars

\* the reviews: a deal is created, paid, completed or disputed, and reviewed
Reviews ==
    \/ \E u \in Users, d \in DealIds : review_seller(u, d)
    \/ \E u \in Users, d \in DealIds, rating \in Ratings : process_rating(u, d, rating)
    \/ \E u \in Users, len \in ReviewLens, w \in WalletInputs :
          process_review_text(u, len, w)

NextReview == (DialogueOpen /\ Dialogue) \/ DialogueEnd \/ PaidPath \/ Resolve \/ Reviews

SpecReview == Init /\ [][NextReview]_vars

\* the happy path as a scenario: user 1 creates a deal of 500 roubles as buyer
\* with user 2 as seller and each of them answers every prompt once, in the
\* order the bot asks, opening the menu or the deal list when they like; the
\* gateway holds the payment when it is asked
HappyPath ==
    \/ \E u \in Clients : cmd_start(u)
    \/ \E u \in Clients : cmd_mydeals(u)
    \/ dialogues < MaxDialogues /\ create_deal_callback(1)
    \/ fsm[1].state = "DEAL_ROLE" /\ process_role(1, "buyer")
    \/ process_amount(1, 50000)
    \/ process_description(1, 11)
    \/ fsm[1].state = "DEAL_DEADLINE" /\ process_deadline(1)
    \/ process_partner(1, 2)
    \/ process_group_link(1, TRUE)
    \/ \E d \in DealIds : DialogueOpen /\ confirm_deal_creation(1, d)
    \/ DialogueEnd
    \/ \E d \in DealIds : accept_deal_invite(2, d)
    \/ \E u \in Clients, d \in DealIds : view_deal_details(u, d)
    \/ \E d \in DealIds : initiate_payment(1, d)
    \/ \E d \in DealIds : Pay(d)
    \/ \E d \in DealIds :
          /\ get_deal(d) /\ deals[d].status = "created" /\ d \in paid
          /\ confirm_payment(1, d)
    \/ \E t \in inflight : confirm_payment_finish(t, TRUE)
    \/ \E d \in DealIds :
          /\ get_deal(d) /\ deals[d].status = "payment_received"
          /\ confirm_receipt(1, d)

\* every participant goes on as long as there is something for them to do
SpecHappy == Init /\ [][HappyPath]_vars /\ WF_vars(HappyPath)

\* ---------------------------------------------------------------- claims
Terminal == {"completed", "cancelled", "rejected"}

\* C1: over any sequence of confirm_receipt and admin_pay invocations on a deal,
\* the seller is credited for that deal at most once.
C1_CreditedAtMostOnce == \A d \in DOMAIN deals : credited[d] <= 1

\* C2: confirm_receipt by anyone but the buyer, or in a status other than
\* payment_received, changes neither the deal's status nor any balance.
C2_ConfirmReceiptRejected ==
    [][\A u \in Users, d \in DealIds :
         (/\ get_deal(d)
          /\ (u # deals[d].buyer_id \/ deals[d].status # "payment_received")
          /\ confirm_receipt(u, d))
         => (deals'[d].status = deals[d].status /\ users' = users)]_vars

\* C3: admin_refund and admin_pay on a deal whose status is not dispute change
\* neither the status nor any balance.
C3_ResolveOnlyInDispute ==
    [][\A u \in Users, d \in DealIds :
         (/\ get_deal(d)
          /\ deals[d].status # "dispute"
          /\ (admin_refund(u, d) \/ admin_pay(u, d)))
         => (deals'[d].status = deals[d].status /\ users' = users)]_vars

\* C4: once a deal's status is completed, cancelled or rejected, no step
\* changes that deal's status again.
C4_TerminalIsFinal ==
    [][\A d \in DOMAIN deals :
         deals[d].status \in Terminal => deals'[d].status = deals[d].status]_vars

\* C5: a payment check with a positive gateway answer that completes when the
\* deal is not in status created (or awaiting_payment) leaves the status unchanged.
C5_PaymentOnlyFromCreated ==
    [][\A t \in inflight :
         (/\ deals[t.deal].status \notin {"created", "awaiting_payment"}
          /\ (confirm_payment_finish(t, TRUE) \/ cmd_checkpayment_finish(t, TRUE)))
         => deals'[t.deal].status = deals[t.deal].status]_vars

\* C6: in every reachable state every user's balance is non-negative.
C6_NoOverdraft == \A u \in Users : users[u].balance >= 0

\* C7: a wallet submission made while the user's balance is below the minimum
\* creates no withdrawal request and leaves the balance unchanged.
C7_BelowMinimumRejected ==
    [][\A u \in Users, w \in WalletInputs :
         (/\ get_user_balance(users, u) < MIN_WITHDRAWAL
          /\ process_withdrawal_wallet(u, w))
         => (withdrawals' = withdrawals /\ users' = users)]_vars

\* C8: right after a wallet submission that records a request, the user's
\* balance is 0 and the new pending request is for the full balance just before.
C8_WithdrawsFullBalance ==
    [][\A u \in Users, w \in WalletInputs :
         (process_withdrawal_wallet(u, w) /\ withdrawals' # withdrawals)
         => (/\ users'[u].balance = 0
             /\ withdrawals'[Len(withdrawals')].status = "pending"
             /\ withdrawals'[Len(withdrawals')].amount = users[u].balance)]_vars

\* C9: open_dispute on a deal whose status is completed, cancelled or rejected,
\* or by a user who is neither buyer nor seller, leaves the deal unchanged.
C9_NoDisputeOnTerminal ==
    [][\A u \in Users, d \in DealIds :
         (/\ get_deal(d)
          /\ (deals[d].status \in Terminal \/ ~IsParticipant(u, d))
          /\ open_dispute(u, d))
         => deals'[d] = deals[d]]_vars

\* C10: in every reachable state a deal in status payment_received has both
\* confirmation flags set.
C10_PaidImpliesBothConfirmed ==
    \A d \in DOMAIN deals :
        deals[d].status = "payment_received"
        => (deals[d].buyer_confirmed /\ deals[d].seller_confirmed)

\* C11: confirm_receipt by the buyer on a deal in status payment_received adds
\* exactly the deal's principal amount (not the total with the fee) to the
\* seller's balance and sets the status to completed in the same step; no
\* other user's row changes.
C11_ReceiptCreditsPrincipal ==
    [][\A u \in Users, d \in DealIds :
        (/\ get_deal(d)
         /\ u = deals[d].buyer_id
         /\ deals[d].status = "payment_received"
         /\ confirm_receipt(u, d))
        => (/\ users'[deals[d].seller_id].balance
                  = users[deals[d].seller_id].balance + deals[d].amount
            /\ deals'[d].status = "completed"
            /\ \A v \in Users \ {deals[d].seller_id} : users'[v] = users[v])]_vars

\* C12: admin_refund on a deal in status dispute sets the status to cancelled
\* and changes no user balance: every row of users is the same before and after.
C12_RefundMovesNoBalance ==
    [][\A u \in Users, d \in DealIds :
        (get_deal(d) /\ deals[d].status = "dispute" /\ admin_refund(u, d))
        => (deals'[d].status = "cancelled" /\ users' = users)]_vars

\* C12 witness: a paid deal, disputed and then refunded, nobody credited
C12_Witness ==
    \E d \in DOMAIN deals :
        /\ deals[d].status = "cancelled"
        /\ deals[d].dispute_opened
        /\ deals[d].payment_confirmed
        /\ credited[d] = 0
        /\ users[deals[d].seller_id].balance = 0
        /\ users[deals[d].buyer_id].balance = 0

\* C13: a balance grows only in confirm_receipt and admin_pay, each time by the
\* principal amount of the deal concerned and on that deal's seller; no other
\* handler raises a balance, and none adds the fee or the total payable.
C13_OnlyCreditsRaiseBalance ==
    [][\A v \in Users :
        users'[v].balance > users[v].balance
        => \E u \in Users, d \in DealIds :
              /\ get_deal(d)
              /\ confirm_receipt(u, d) \/ admin_pay(u, d)
              /\ v = deals[d].seller_id
              /\ users'[v].balance = users[v].balance + deals[d].amount]_vars

\* C13 witness: a seller credited by admin_pay who has since withdrawn, while
\* the buyer, who has looked at the balance, holds nothing
C13_Witness ==
    \E d \in DOMAIN deals :
        /\ deals[d].dispute_opened
        /\ deals[d].status = "completed"
        /\ credited[d] = 1
        /\ \E i \in DOMAIN withdrawals :
              /\ withdrawals[i].user_id = deals[d].seller_id
              /\ withdrawals[i].amount = deals[d].amount
        /\ users[deals[d].seller_id].balance = 0
        /\ users[deals[d].buyer_id].balance = 0

\* C14: admin_refund, admin_pay, /payout and /checkpayment invoked by a user
\* outside ADMIN_IDS change no deal, no balance and no withdrawal request, and
\* start no gateway call (no handler is parked, no payout is made).
C14_AdminOnly ==
    [][\A u \in Users \ ADMIN_IDS :
        (\/ \E d \in DealIds :
               admin_refund(u, d) \/ admin_pay(u, d) \/ cmd_checkpayment(u, d)
         \/ \E target \in Users, amount \in PayoutAmounts :
               cmd_payout(u, target, amount))
        => UNCHANGED <<deals, users, withdrawals, payouts, inflight>>]_vars

\* C14 witness: a state in which the commands would have an effect if they were
\* let through: a deal whose payment has arrived and is not yet confirmed, a
\* pending withdrawal request, nothing parked
C14_Witness ==
    /\ inflight = {}
    /\ \E d \in DOMAIN deals :
          d \in paid /\ ~deals[d].payment_confirmed /\ deals[d].status = "dispute"
    /\ \E i \in DOMAIN withdrawals :
          withdrawals[i].status = "pending" /\ withdrawals[i].user_id \notin ADMIN_IDS

\* C15: reject_deal_invite takes effect only while the deal's status is created
\* and the two confirmation flags are not both set; in any other situation it
\* leaves the status unchanged.
C15_RejectOnlyWhileOpen ==
    [][\A t \in inflight :
        (/\ t.op = "reject_deal_invite"
         /\ deals[t.deal].status # "created" \/ are_both_confirmed(t.deal)
         /\ reject_deal_invite_finish(t))
        => deals'[t.deal].status = deals[t.deal].status]_vars

\* C16: accept_deal_invite and join_deal_via_link are valid only while the
\* deal's status is created: on a deal in any other status they set no
\* confirmation flag.
C16_ConfirmOnlyWhileCreated ==
    [][\A u \in Users, d \in DealIds :
        (/\ get_deal(d)
         /\ deals[d].status # "created"
         /\ accept_deal_invite(u, d) \/ join_deal_via_link(u, d))
        => (/\ deals'[d].buyer_confirmed = deals[d].buyer_confirmed
            /\ deals'[d].seller_confirmed = deals[d].seller_confirmed)]_vars

\* C17: accept_deal_invite and join_deal_via_link set exactly the confirmation
\* flag of the caller's side (buyer_confirmed for the buyer, seller_confirmed
\* for the seller), set it whenever the deal is not yet confirmed by both, and
\* leave the other flag, the status and the rest of the deal unchanged; a
\* caller who is neither buyer nor seller changes nothing of the deal.
C17_SetsOwnFlagOnly ==
    [][\A u \in Users, d \in DealIds :
        (get_deal(d) /\ (accept_deal_invite(u, d) \/ join_deal_via_link(u, d)))
        => IF ~IsParticipant(u, d)
           THEN deals' = deals
           ELSE /\ deals'[d].status = deals[d].status
                /\ ~are_both_confirmed(d) =>
                      deals'[d] = IF user_role(u, d) = "buyer"
                                  THEN [deals[d] EXCEPT !.buyer_confirmed = TRUE]
                                  ELSE [deals[d] EXCEPT !.seller_confirmed = TRUE]
                /\ are_both_confirmed(d) => deals' = deals]_vars

\* C17 witness: a deal created by its buyer and then confirmed by its seller,
\* still in status created
C17_Witness ==
    \E d \in DOMAIN deals :
        /\ deals[d].status = "created"
        /\ deals[d].creator_id = deals[d].buyer_id
        /\ deals[d].creator_role = "buyer"
        /\ deals[d].buyer_confirmed /\ deals[d].seller_confirmed
        /\ ~deals[d].payment_url

\* C18: confirming twice is confirming once: accept_deal_invite or
\* join_deal_via_link by a participant whose own flag is already set, on a deal
\* in status created, leaves the deal and every balance as they are.
C18_ConfirmIdempotent ==
    [][\A u \in Users, d \in DealIds :
        (/\ get_deal(d)
         /\ deals[d].status = "created"
         /\ IsParticipant(u, d)
         /\ IF user_role(u, d) = "buyer"
            THEN deals[d].buyer_confirmed ELSE deals[d].seller_confirmed
         /\ accept_deal_invite(u, d) \/ join_deal_via_link(u, d))
        => (/\ deals' = deals
            /\ \A v \in Users : users'[v].balance = users[v].balance)]_vars

\* C18 witness: the invited buyer has confirmed a deal created by its seller and
\* still holds the accept button of the invitation, so can confirm again
C18_Witness ==
    \E d \in DOMAIN deals :
        /\ deals[d].status = "created"
        /\ deals[d].creator_id = deals[d].seller_id
        /\ deals[d].buyer_confirmed /\ deals[d].seller_confirmed
        /\ Button(deals[d].buyer_id, "accept_invite", d) \in keyboards

\* C19: immediately after confirm_deal_creation the new deal has status
\* created, the confirmation flag of the side the creator is on is true, and
\* the counterparty's flag is false.
C19_CreatorSideConfirmed ==
    [][\A u \in Users, d \in DealIds :
        confirm_deal_creation(u, d)
        => (/\ deals'[d].status = "created"
            /\ deals'[d].creator_id = u
            /\ u = deals'[d].buyer_id =>
                  (deals'[d].buyer_confirmed /\ ~deals'[d].seller_confirmed)
            /\ u = deals'[d].seller_id =>
                  (deals'[d].seller_confirmed /\ ~deals'[d].buyer_confirmed))]_vars

\* C20: every deal created by confirm_deal_creation gets an id different from
\* the ids of all deals that exist, and its creation adds that one row and
\* leaves every existing deal record as it is, also with two creation
\* dialogues in progress at once.
C20_FreshDealId ==
    [][\A u \in Clients, d \in DealNumbers :
        confirm_deal_creation(u, d)
        => (/\ d \notin DOMAIN deals
            /\ DOMAIN deals' = DOMAIN deals \cup {d}
            /\ \A e \in DOMAIN deals : deals'[e] = deals[e])]_vars

\* C20 witness: two deals created by two different users' dialogues, the
\* second while the handler that created it is still parked
C20_Witness ==
    /\ Cardinality(DOMAIN deals) = MaxNumbers
    /\ \E d, e \in DOMAIN deals : deals[d].creator_id # deals[e].creator_id
    /\ \E t \in inflight : t.op = "confirm_deal_creation"

\* C21: in every reachable state, the buyer of every persisted deal is a
\* different user from its seller.
C21_BuyerIsNotSeller ==
    \A d \in DOMAIN deals : deals[d].buyer_id # deals[d].seller_id

\* two deals are persisted, one created by its buyer and one by its seller
C21_Witness ==
    \E d, e \in DOMAIN deals :
        /\ deals[d].creator_id = deals[d].buyer_id
        /\ deals[e].creator_id = deals[e].seller_id

\* C22: for every deal the stored guarantor fee is 8% of the principal and the
\* stored total is amount + fee; both are fixed at creation, and no later
\* operation changes the amount, the fee or the total of a deal.
C22_FeeAndTotalFixed ==
    /\ [](\A d \in DOMAIN deals :
            /\ deals[d].guarantor_fee * 100 = deals[d].amount * 8
            /\ deals[d].total_amount = deals[d].amount + deals[d].guarantor_fee)
    /\ [][\A d \in DOMAIN deals :
            /\ d \in DOMAIN deals'
            /\ deals'[d].amount = deals[d].amount
            /\ deals'[d].guarantor_fee = deals[d].guarantor_fee
            /\ deals'[d].total_amount = deals[d].total_amount]_vars

\* a deal of 500 roubles has gone through payment and completion and still
\* carries the fee of 40 and the total of 540
C22_Witness ==
    \E d \in DOMAIN deals :
        /\ deals[d].status = "completed"
        /\ deals[d].payment_confirmed
        /\ deals[d].amount = 50000
        /\ deals[d].guarantor_fee = 4000
        /\ deals[d].total_amount = 54000

\* C23: initiate_payment stores a payment URL only when the caller is the
\* deal's buyer, both confirmation flags are set and the status is created; in
\* every other case nothing is stored, and in no case does the status change.
C23_InitiatePaymentGuarded ==
    [][\A u \in Users, d \in DealIds :
         initiate_payment(u, d) =>
           IF /\ get_deal(d) /\ u = deals[d].buyer_id
              /\ deals[d].buyer_confirmed /\ deals[d].seller_confirmed
              /\ deals[d].status = "created"
           THEN /\ deals'[d].payment_url
                /\ deals'[d].status = deals[d].status
                /\ users' = users
           ELSE /\ deals' = deals
                /\ users' = users
                /\ keyboards' = keyboards]_vars

\* the buyer has obtained a payment URL, and the button that asks for one is
\* still on a keyboard of a deal that has since gone to dispute
C23_Witness ==
    \E d \in DOMAIN deals :
        /\ deals[d].payment_url
        /\ deals[d].status = "dispute"
        /\ Button(deals[d].buyer_id, "payment", d) \in keyboards

\* C24: a confirm_payment call that the gateway answers negatively (no payment,
\* an API error, no token) changes no stored state: the deal's status, its
\* payment_confirmed flag and every balance stay as they were.
C24_NegativeAnswerNoChange ==
    [][/\ \A u \in Users, d \in DealIds :
            confirm_payment(u, d) => (deals' = deals /\ users' = users)
       /\ \A t \in inflight :
            confirm_payment_finish(t, FALSE) =>
               /\ deals' = deals
               /\ users' = users
               /\ withdrawals' = withdrawals]_vars

\* a confirm_payment call waits for the gateway, which has no payment for the
\* deal and can only answer negatively
C24_Witness ==
    \E t \in inflight :
        /\ t.op = "confirm_payment"
        /\ t.deal \notin paid
        /\ deals[t.deal].status = "created"
        /\ deals[t.deal].payment_url

\* C25: retries after a real payment succeed.  On a deal in status created a
\* confirm_payment call that the gateway answers positively moves the deal to
\* payment_received, whatever negative answers came before; and when the buyer
\* keeps retrying and the gateway eventually reports the payment, a paid deal
\* in status created eventually reaches payment_received.
C25_RetryReachesPaymentReceived ==
    /\ [][\A t \in inflight :
            (deals[t.deal].status = "created" /\ confirm_payment_finish(t, TRUE))
            => (/\ deals'[t.deal].status = "payment_received"
                /\ deals'[t.deal].payment_confirmed)]_vars
    /\ \A d \in DealIds :
          (/\ get_deal(d) /\ d \in paid /\ deals[d].status = "created"
           /\ Button(deals[d].buyer_id, "confirm_payment", d) \in keyboards)
          ~> (get_deal(d) /\ deals[d].status = "payment_received")

\* the payment of the deal is at the gateway and the bot has recorded it after
\* the buyer asked for the check
C25_Witness ==
    \E d \in DOMAIN deals :
        /\ d \in paid
        /\ Button(deals[d].buyer_id, "confirm_payment", d) \in keyboards
        /\ deals[d].status = "payment_received"
        /\ deals[d].payment_confirmed
        /\ inflight = {}

\* C26: work_done is accepted only when the caller is the deal's seller and
\* the deal's status is payment_received; on a deal in dispute, completed or
\* cancelled, even one whose payment was confirmed earlier, it is rejected.
C26_WorkDoneOnlyWhilePaymentReceived ==
    \A u \in Users, d \in DealIds :
        ENABLED work_done(u, d) =>
            (u = deals[d].seller_id /\ deals[d].status = "payment_received")

\* C27: a successful open_dispute sets the deal's status to dispute and its
\* dispute_opened flag to true and leaves every balance unchanged; the flag
\* stays true in every later state, also after the dispute is resolved.
C27_DisputeFlagKept ==
    [][/\ \A u \in Users, d \in DealIds :
            open_dispute(u, d) =>
               /\ deals'[d].status = "dispute"
               /\ deals'[d].dispute_opened
               /\ users' = users
       /\ \A d \in DOMAIN deals :
            deals[d].dispute_opened => (d \in DOMAIN deals' /\ deals'[d].dispute_opened)]_vars

\* a dispute has been opened and resolved by the administrator: the deal is
\* cancelled or completed and still carries the flag
C27_Witness ==
    \E d \in DOMAIN deals :
        /\ deals[d].dispute_opened
        /\ deals[d].status \in {"cancelled", "completed"}

\* C28: /payout marks a withdrawal request completed only after the gateway
\* payout succeeded; when the payout fails the request stays pending, so that
\* the command can be given again; in both cases no balance changes.
C28_PayoutMarksOnSuccessOnly ==
    [][/\ \A u \in Users, target \in Users, amount \in PayoutAmounts :
            cmd_payout(u, target, amount) => (withdrawals' = withdrawals /\ users' = users)
       /\ \A t \in inflight :
            /\ cmd_payout_finish(t, FALSE) => (withdrawals' = withdrawals /\ users' = users)
            /\ cmd_payout_finish(t, TRUE) => users' = users
       /\ \A i \in DOMAIN withdrawals :
            (withdrawals[i].status = "pending" /\ i \in DOMAIN withdrawals'
                /\ withdrawals'[i].status = "completed")
            => \E t \in inflight :
                  /\ cmd_payout_finish(t, TRUE)
                  /\ payouts' = payouts + 1
                  /\ t.user = withdrawals[i].user_id
                  /\ t.amount = withdrawals[i].amount]_vars

\* a gateway payout has succeeded and the request it pays is completed, while
\* the balance debited at request time is still zero
C28_Witness ==
    \E i \in DOMAIN withdrawals :
        /\ withdrawals[i].status = "completed"
        /\ payouts = 1
        /\ users[withdrawals[i].user_id].balance = 0

C30_GetBalanceUnobservable ==
    [][\A u \in Users :
         (cmd_balance(u) \/ my_balance_callback(u) \/ withdraw_request(u)) =>
            /\ ~users[u].exists => get_user_balance(users, u) = 0
            /\ \A v \in Users : users'[v].balance = users[v].balance
            /\ \A d \in DOMAIN deals :
                 LET s == deals[d].seller_id
                     a == deals[d].amount
                 IN get_user_balance(update_user_balance(users', s, a), s)
                    = get_user_balance(update_user_balance(users, s, a), s)]_vars

\* C31: a review is stored only for a deal that has reached the status
\* completed; `credited` counts the runs of the only code that sets that status
\* (the credit in confirm_receipt and admin_pay), so a review of a deal that
\* was never completed would be a row with credited = 0.
C31_ReviewOnlyAfterCompleted ==
    \A r \in reviews : get_deal(r.deal_id) /\ credited[r.deal_id] >= 1

\* the buyer of a completed deal has rated the seller and the row is stored
C31_Witness ==
    \E r \in reviews :
        /\ deals[r.deal_id].status = "completed"
        /\ r.reviewer_id = deals[r.deal_id].buyer_id
        /\ r.reviewed_user_id = deals[r.deal_id].seller_id
        /\ r.rating = 5

\* C32: the happy path is executable end to end.  A deal of 500 created by the
\* buyer and confirmed by the seller gets a payment URL from initiate_payment,
\* goes to payment_received when the gateway confirms the payment, and ends
\* after the buyer's confirm_receipt with status completed and the seller's
\* balance, 0 at the start, equal to 500.
C32_HappyPathCompletes ==
    /\ [][\A t \in inflight :
            confirm_payment_finish(t, TRUE) =>
               /\ deals[t.deal].payment_url
               /\ are_both_confirmed(t.deal)
               /\ deals'[t.deal].status = "payment_received"]_vars
    /\ [](\A d \in DOMAIN deals :
            deals[d].status = "completed" =>
               /\ deals[d].payment_confirmed
               /\ users[deals[d].seller_id].balance = 50000)
    /\ <>(\E d \in DOMAIN deals :
            /\ deals[d].creator_id = deals[d].buyer_id
            /\ deals[d].amount = 50000
            /\ deals[d].status = "completed"
            /\ users[deals[d].seller_id].balance = 50000)

\* the end of the scenario: the deal of 500 is completed, nothing is pending
\* and the seller holds 500
C32_Witness ==
    /\ inflight = {}
    /\ \E d \in DOMAIN deals :
        /\ deals[d].buyer_id = 1 /\ deals[d].seller_id = 2
        /\ deals[d].status = "completed"
        /\ deals[d].payment_url /\ deals[d].payment_confirmed
        /\ deals[d].total_amount = 54000
        /\ users[2].balance = 50000
        /\ credited[d] = 1

\* C33: escrowed funds are released only for paid deals: whenever
\* confirm_receipt or admin_pay credits the seller of a deal, the payment of
\* that deal has been confirmed before (payment_confirmed is true).
C33_CreditOnlyIfPaid ==
    [][\A u \in Users, d \in DealIds :
         (confirm_receipt(u, d) \/ admin_pay(u, d)) => deals[d].payment_confirmed]_vars

\* C34: a party's confirmation flag reflects that party's own consent: the
\* flag buyer_confirmed (seller_confirmed) of a deal becomes true only in a
\* step that the buyer (seller) takes in person, the creation of the deal or a
\* confirmation of participation, in every order of the dialogue's callbacks.
C34_FlagIsOwnConsent ==
    [][\A d \in DealIds :
         d \in DOMAIN deals' =>
           /\ (deals'[d].buyer_confirmed /\ ~(get_deal(d) /\ deals[d].buyer_confirmed))
                => LET b == deals'[d].buyer_id
                   IN \/ confirm_deal_creation(b, d)
                      \/ accept_deal_invite(b, d)
                      \/ join_deal_via_link(b, d)
           /\ (deals'[d].seller_confirmed /\ ~(get_deal(d) /\ deals[d].seller_confirmed))
                => LET s == deals'[d].seller_id
                   IN \/ confirm_deal_creation(s, d)
                      \/ accept_deal_invite(s, d)
                      \/ join_deal_via_link(s, d)]_vars

\* C35: flags and status never disagree: a deal in status payment_received has
\* payment_confirmed set and a deal in status dispute has dispute_opened set;
\* and none of the flags buyer_confirmed, seller_confirmed, payment_confirmed,
\* dispute_opened is ever reset once it is true.
C35_FlagsAgreeWithStatus ==
    /\ [](\A d \in DOMAIN deals :
            /\ deals[d].status = "payment_received" => deals[d].payment_confirmed
            /\ deals[d].status = "dispute" => deals[d].dispute_opened)
    /\ [][\A d \in DOMAIN deals :
            /\ d \in DOMAIN deals'
            /\ deals[d].buyer_confirmed => deals'[d].buyer_confirmed
            /\ deals[d].seller_confirmed => deals'[d].seller_confirmed
            /\ deals[d].payment_confirmed => deals'[d].payment_confirmed
            /\ deals[d].dispute_opened => deals'[d].dispute_opened]_vars

\* a deal whose dispute was opened first and whose payment was confirmed
\* afterwards: status payment_received with all four flags set
C35_Witness ==
    \E d \in DOMAIN deals :
        /\ deals[d].status = "payment_received"
        /\ deals[d].payment_confirmed /\ deals[d].dispute_opened
        /\ deals[d].buyer_confirmed /\ deals[d].seller_confirmed

\* C36: ledger conservation: in every reachable state and for every user, the
\* balance plus the amounts of all withdrawal requests of the user (pending
\* and completed) equals the sum of the principals credited to the user, one
\* principal for every crediting transition (confirm_receipt, admin_pay).
C36_LedgerConservation ==
    LET RECURSIVE Requested(_, _)
        Requested(u, i) ==
            IF i = 0 THEN 0
            ELSE (IF withdrawals[i].user_id = u THEN withdrawals[i].amount ELSE 0)
                 + Requested(u, i - 1)
        RECURSIVE Credited(_, _)
        Credited(u, D) ==
            IF D = {} THEN 0
            ELSE LET d == CHOOSE x \in D : TRUE
                 IN (IF deals[d].seller_id = u
                     THEN credited[d] * deals[d].amount ELSE 0) + Credited(u, D \ {d})
    IN \A u \in Users :
          users[u].balance + Requested(u, Len(withdrawals)) = Credited(u, DOMAIN deals)

\* C37: every gateway payout corresponds to exactly one withdrawal request:
\* /payout calls the gateway only when a pending request of that user and
\* amount exists, one successful payout moves exactly one request from pending
\* to completed, and no request is paid out more than once, so that there are
\* never more successful payouts than completed requests.
C37_PayoutMatchesOneRequest ==
    /\ [][/\ \A u \in Users, target \in Users, amount \in PayoutAmounts :
               (is_admin_user(u) /\ cmd_payout(u, target, amount))
               => \E i \in DOMAIN withdrawals :
                     /\ withdrawals[i].user_id = target
                     /\ withdrawals[i].amount = amount
                     /\ withdrawals[i].status = "pending"
          /\ \A t \in inflight :
               cmd_payout_finish(t, TRUE)
               => Cardinality({i \in DOMAIN withdrawals :
                                  /\ withdrawals[i].status = "pending"
                                  /\ withdrawals'[i].status = "completed"}) = 1]_vars
    /\ [](payouts <= Cardinality({i \in DOMAIN withdrawals :
                                     withdrawals[i].status = "completed"}))

\* C38: one completed creation dialogue produces at most one deal: a confirm
\* callback persists a deal only while no other confirm callback of the same
\* user is running, so that there are never more deals than dialogues opened.
C38_OneDealPerDialogue ==
    /\ [][\A u \in Clients, d \in DealNumbers :
             confirm_deal_creation(u, d)
             => ~\E t \in inflight : t.op = "confirm_deal_creation" /\ t.user = u]_vars
    /\ [](Cardinality(DOMAIN deals) <= dialogues)

\* C39: no credit is silently lost: both participants of every deal have a user
\* record from the creation of the deal on, and whenever a crediting transition
\* (confirm_receipt, admin_pay) credits a deal's seller, the record of that
\* seller exists and its balance increases by the principal.
C39_CreditedSellerHasRecord ==
    /\ [](\A d \in DOMAIN deals :
             users[deals[d].buyer_id].exists /\ users[deals[d].seller_id].exists)
    /\ [][\A d \in DOMAIN deals :
             credited'[d] # credited[d]
             => /\ users[deals[d].seller_id].exists
                /\ users'[deals[d].seller_id].balance
                      = users[deals[d].seller_id].balance + deals[d].amount]_vars

=============================================================================
